---- MODULE Spec2Model ----
(***************************************************************************)
(* Model of examples/experience_demo/encoder_decoder_text.py: the          *)
(* two-stage "encode a digit in a poem, then recall it" experience         *)
(* function and its reward function.                                       *)
(*                                                                         *)
(* A text is a sequence of one-character strings.  A tensor row is a       *)
(* tagged text <<"ids", text>>.  The trainer's tokenizer, decode and       *)
(* generate_and_calc_logprobs and RunElementBatch.__add__ live outside     *)
(* this file; they are modelled from their documented contracts.           *)
(***************************************************************************)
EXTENDS Integers, Sequences, FiniteSets, TLC

\* ------------------------------------------------------------------ bounds
MaxBatch == 2
MaxTraj == 2

\* ------------------------------------------------------- text primitives
DigitChars == <<"0", "1", "2", "3", "4", "5", "6", "7", "8", "9">>

Whitespace == {" ", "\n"}

IsDigitChar(c) == \E k \in 1..10 : DigitChars[k] = c

DigitVal(c) == (CHOOSE k \in 1..10 : DigitChars[k] = c) - 1

\* str.isdigit(): non-empty and every character is a digit
isdigit(w) == Len(w) > 0 /\ \A k \in 1..Len(w) : IsDigitChar(w[k])

RECURSIVE int(_)
\* int(w) for a word w that satisfies isdigit
int(w) == IF Len(w) = 0 THEN 0
          ELSE 10 * int(SubSeq(w, 1, Len(w) - 1)) + DigitVal(w[Len(w)])

RECURSIVE Str(_)
\* the f-string conversion {digits[i]} of a non-negative integer
Str(d) == IF d < 10 THEN <<DigitChars[d + 1]>>
          ELSE Str(d \div 10) \o <<DigitChars[(d % 10) + 1]>>

Contains(s, sub) ==
    \E k \in 0..(Len(s) - Len(sub)) : SubSeq(s, k + 1, k + Len(sub)) = sub

HasPrefix(s, p) == Len(p) <= Len(s) /\ SubSeq(s, 1, Len(p)) = p

HasSuffix(s, p) == Len(p) <= Len(s) /\ SubSeq(s, Len(s) - Len(p) + 1, Len(s)) = p

RECURSIVE LStrip(_)
LStrip(s) == IF Len(s) > 0 /\ s[1] \in Whitespace THEN LStrip(Tail(s)) ELSE s

RECURSIVE RStrip(_)
RStrip(s) == IF Len(s) > 0 /\ s[Len(s)] \in Whitespace
             THEN RStrip(SubSeq(s, 1, Len(s) - 1)) ELSE s

\* the last whitespace-delimited token of a text (<<>> when there is none)
RECURSIVE LastTokenOf(_)
LastTokenOf(s) ==
    IF Len(s) = 0 \/ s[Len(s)] \in Whitespace THEN <<>>
    ELSE LastTokenOf(SubSeq(s, 1, Len(s) - 1)) \o <<s[Len(s)]>>

LastToken(s) == LastTokenOf(RStrip(s))

Reverse(s) == [k \in 1..Len(s) |-> s[Len(s) + 1 - k]]

\* ------------------------------------------------------ template literals
fact_head == <<"F", "a", "c", "t", ":", " ", "x", " ", "=", " ">>

fact_tail == <<"\n", "C", "o", "n", "t", "i", "n", "u", "e", " ", "t", "h", "e", " ", "p", "o", "e", "m", ":", "\n", "\n">>

recall_str == <<"\n", "R", "e", "c", "a", "l", "l", " ", "f", "a", "c", "t", ":", " ", "x", " ", "i", "s", " ", "e", "i", "t", "h", "e", "r", " ", "0", " ", "o", "r", " ", "1", ".", "\n", "A", "n", "s", "w", "e", "r", ":", " ", "x", " ", "=">>

\* the sentinel appended to the first run's prompt
first_run_sentinel == <<"T", "h", "e", "\n">>

\* the separator between poem and continuation in the second run's prompt
second_run_sentinel == <<"\n", "T", "h", "e">>

fact_strs(d) == fact_head \o Str(d) \o fact_tail

\* ------------------------------------------------------------ environment
\* the ordered corpus of base prompts; a batch is its first batch_size poems
Corpus == <<<<"q">>, <<"k">>, <<"j">>, <<"z">>>>

\* continuations the stage-1 generation may produce (the empty one included)
Stage1Outputs == {<<>>, <<" ", "g">>}

AnswerText(d) == <<"A", "n", "s", "w", "e", "r", ":", " ", "x", " ", "=", " ">> \o Str(d)

\* answers the stage-2 generation may produce
Stage2Outputs == {<<>>, AnswerText(0), AnswerText(1)}

StatKeySets == {{"kl"}, {"kl", "mean"}}

NoStats == [k \in {} |-> 0]

NoData == [query_tensors |-> <<>>, response_tensors |-> <<>>]

FaultKinds == {"short", "long", "reversed"}

VARIABLES
    pc,                     \* position in encoder_decoder_experience_fn / caller
    raised,                 \* the exception that ended the step, or "none"
    lossy,                  \* whether the codec normalises outer whitespace
    faultAt, faultKind,     \* which decode call (0 = none) breaks its contract, and how
    batch, batch_size, digits,
    str_prompts,
    first_run_strs, first_run_batch, first_run_data, first_run_stats,
    first_run_str_prompts, first_run_str_outputs,
    second_run_strs, second_run_batch, second_run_data, second_run_stats,
    second_run_str_prompts, second_run_str_outputs,
    data, stats, trajectories,
    calls,                  \* history of collaborator calls, in order
    kind,                   \* container type handed to reward_fn
    rewards                 \* what reward_fn returned or raised

vars == <<pc, raised, lossy, faultAt, faultKind, batch, batch_size, digits,
          str_prompts,
          first_run_strs, first_run_batch, first_run_data, first_run_stats,
          first_run_str_prompts, first_run_str_outputs,
          second_run_strs, second_run_batch, second_run_data, second_run_stats,
          second_run_str_prompts, second_run_str_outputs,
          data, stats, trajectories, calls, kind, rewards>>

\* --------------------------------------------------- external collaborators
Tok(text) == <<"ids", text>>

Text(ids) == ids[2]

\* trainer.tokenizer(strs): one row of ids per string, in order
tokenizer(strs) == [input_ids |-> [i \in 1..Len(strs) |-> Tok(strs[i])]]

\* detokenisation of one row; lossy at the outer whitespace
Detok(ids) == IF lossy THEN LStrip(RStrip(Text(ids))) ELSE Text(ids)

Faulty(k, texts) ==
    IF faultAt # k THEN texts
    ELSE CASE faultKind = "short" -> SubSeq(texts, 1, Len(texts) - 1)
           [] faultKind = "long" -> Append(texts, <<>>)
           [] OTHER -> Reverse(texts)

\* trainer.decode(query_tensors, response_tensors), the k-th call of the step
decode(k, qs, rs) ==
    [str_prompts |-> Faulty(k, [i \in 1..Len(qs) |-> Detok(qs[i])]),
     str_outputs |-> Faulty(k, [i \in 1..Len(rs) |-> Detok(rs[i])])]

\* the results trainer.orch.generate_and_calc_logprobs(b) may return:
\* one response per element, in order, and a statistics map
generate_and_calc_logprobs(b, outputs, base) ==
    {[data |-> [query_tensors |-> b.input_ids,
                response_tensors |-> [i \in 1..Len(b.input_ids) |-> Tok(outs[i])]],
      stats |-> [k \in keys |-> IF k = "kl" THEN base ELSE base + 1]] :
        outs \in [1..Len(b.input_ids) -> outputs], keys \in StatKeySets}

\* RunElementBatch.__add__: field-wise concatenation along the batch axis
RunElementBatch_add(a, b) ==
    [query_tensors |-> a.query_tensors \o b.query_tensors,
     response_tensors |-> a.response_tensors \o b.response_tensors]

Call(op, size) == [op |-> op, size |-> size]

Raise(e) == pc' = "raised" /\ raised' = e

\* --------------------------------------------------------- reward function
Returned(v) == [raised |-> "none", value |-> v]

Threw(e) == [raised |-> e, value |-> <<>>]

NotCalled == [raised |-> "not called", value |-> <<>>]

\* sample[-1] of a str is its last character; of "" it is an IndexError
get_last_digit(sample) ==
    IF Len(sample) = 0 THEN Threw("IndexError")
    ELSE LET last_word == <<sample[Len(sample)]>>
         IN  IF isdigit(last_word) THEN Returned(int(last_word)) ELSE Returned(-1)

\* k is the container: a Python list of lists, or a two-dimensional ndarray
reward_fn(k, trajs) ==
    IF \E i \in 1..Len(trajs) : Len(trajs[i]) # 3
    THEN Threw("AssertionError")
    ELSE IF k = "list"
    THEN Threw("TypeError")          \* trajectories[:, 2] on a list
    ELSE LET reconstructed_digits == [i \in 1..Len(trajs) |-> get_last_digit(trajs[i][3])]
         IN  IF \E i \in 1..Len(trajs) : reconstructed_digits[i].raised # "none"
             THEN Threw("IndexError")
             ELSE Returned([i \in 1..Len(trajs) |->
                     IF trajs[i][1] = reconstructed_digits[i].value THEN 1 ELSE 0])

\* ------------------------------------------------------ experience function
\* first_run_str with every element given the first element's fact
first_run_str_first_digit(i) ==
    fact_strs(digits[1]) \o str_prompts[i] \o first_run_sentinel

first_run_str(i) == fact_strs(digits[i]) \o str_prompts[i] \o first_run_sentinel

\* second_run_str built on the first run's prompt, which states the fact
second_run_str_on_first_prompt(i) ==
    first_run_strs[i] \o second_run_sentinel \o first_run_str_outputs[i] \o recall_str

second_run_str(i) ==
    str_prompts[i] \o second_run_sentinel \o first_run_str_outputs[i] \o recall_str

\* trajectory with the two outputs exchanged
trajectory_outputs_swapped(i) ==
    <<digits[i], first_run_str_prompts[i], second_run_str_outputs[i],
      second_run_str_prompts[i], first_run_str_outputs[i]>>

trajectory(i) ==
    <<digits[i], first_run_str_prompts[i], first_run_str_outputs[i],
      second_run_str_prompts[i], second_run_str_outputs[i]>>

\* {k: first_run_stats[k] + second_run_stats[k] for k in first_run_stats}
sum_stats(a, b) == [k \in DOMAIN a |-> a[k] + b[k]]

Init ==
    /\ pc = "start"
    /\ raised = "none"
    /\ lossy \in BOOLEAN
    /\ \/ faultAt = 0 /\ faultKind = "none"
       \/ faultAt \in 1..3 /\ faultKind \in FaultKinds
    /\ batch_size \in 1..MaxBatch
    /\ batch = [input_ids |-> [i \in 1..batch_size |-> Tok(Corpus[i])]]
    /\ digits = <<>>
    /\ str_prompts = <<>>
    /\ first_run_strs = <<>> /\ first_run_batch = [input_ids |-> <<>>]
    /\ first_run_data = NoData /\ first_run_stats = NoStats
    /\ first_run_str_prompts = <<>> /\ first_run_str_outputs = <<>>
    /\ second_run_strs = <<>> /\ second_run_batch = [input_ids |-> <<>>]
    /\ second_run_data = NoData /\ second_run_stats = NoStats
    /\ second_run_str_prompts = <<>> /\ second_run_str_outputs = <<>>
    /\ data = NoData /\ stats = NoStats /\ trajectories = <<>>
    /\ calls = <<>>
    /\ kind = "list"
    /\ rewards = NotCalled

\* lines 73-86: sample the digits, detokenise the poems
SampleAndDecode ==
    /\ pc = "start"
    /\ digits' \in [1..batch_size -> {0, 1}]
    /\ str_prompts' = decode(1, batch.input_ids, batch.input_ids).str_prompts
    /\ calls' = Append(calls, Call("decode", Len(batch.input_ids)))
    /\ pc' = "first_compose"
    /\ UNCHANGED <<raised, lossy, faultAt, faultKind, batch, batch_size,
                   first_run_strs, first_run_batch, first_run_data, first_run_stats,
                   first_run_str_prompts, first_run_str_outputs,
                   second_run_strs, second_run_batch, second_run_data, second_run_stats,
                   second_run_str_prompts, second_run_str_outputs,
                   data, stats, trajectories, kind, rewards>>

\* lines 88-94: compose and encode the first run
EncodeFirst ==
    /\ pc = "first_compose"
    /\ IF Len(str_prompts) < batch_size
       THEN /\ Raise("IndexError")
            /\ UNCHANGED <<first_run_strs, first_run_batch, calls>>
       ELSE /\ first_run_strs' = [i \in 1..batch_size |-> first_run_str(i)]
            /\ first_run_batch' = tokenizer(first_run_strs')
            /\ calls' = Append(calls, Call("tokenizer", Len(first_run_strs')))
            /\ pc' = "first_generate"
            /\ UNCHANGED raised
    /\ UNCHANGED <<lossy, faultAt, faultKind, batch, batch_size, digits, str_prompts,
                   first_run_data, first_run_stats,
                   first_run_str_prompts, first_run_str_outputs,
                   second_run_strs, second_run_batch, second_run_data, second_run_stats,
                   second_run_str_prompts, second_run_str_outputs,
                   data, stats, trajectories, kind, rewards>>

\* GenerateFirst with a failed generation tried once more
GenerateFirst_retrying ==
    /\ pc = "first_generate"
    /\ calls' = Append(calls, Call("generate", Len(first_run_batch.input_ids)))
    /\ \/ /\ \E r \in generate_and_calc_logprobs(first_run_batch, Stage1Outputs, 1) :
                first_run_data' = r.data /\ first_run_stats' = r.stats
          /\ pc' = "first_decode"
          /\ UNCHANGED raised
       \/ /\ IF Len(calls) < 3 THEN UNCHANGED <<pc, raised>> ELSE Raise("CollaboratorFailure")
          /\ UNCHANGED <<first_run_data, first_run_stats>>
    /\ UNCHANGED <<lossy, faultAt, faultKind, batch, batch_size, digits, str_prompts,
                   first_run_strs, first_run_batch,
                   first_run_str_prompts, first_run_str_outputs,
                   second_run_strs, second_run_batch, second_run_data, second_run_stats,
                   second_run_str_prompts, second_run_str_outputs,
                   data, stats, trajectories, kind, rewards>>

\* line 97: the first generation; a failure of the engine propagates
GenerateFirst ==
    /\ pc = "first_generate"
    /\ calls' = Append(calls, Call("generate", Len(first_run_batch.input_ids)))
    /\ \/ /\ \E r \in generate_and_calc_logprobs(first_run_batch, Stage1Outputs, 1) :
                first_run_data' = r.data /\ first_run_stats' = r.stats
          /\ pc' = "first_decode"
          /\ UNCHANGED raised
       \/ /\ Raise("CollaboratorFailure")
          /\ UNCHANGED <<first_run_data, first_run_stats>>
    /\ UNCHANGED <<lossy, faultAt, faultKind, batch, batch_size, digits, str_prompts,
                   first_run_strs, first_run_batch,
                   first_run_str_prompts, first_run_str_outputs,
                   second_run_strs, second_run_batch, second_run_data, second_run_stats,
                   second_run_str_prompts, second_run_str_outputs,
                   data, stats, trajectories, kind, rewards>>

\* lines 100-102: decode the first run
DecodeFirst ==
    /\ pc = "first_decode"
    /\ LET d == decode(2, first_run_data.query_tensors, first_run_data.response_tensors)
       IN  /\ first_run_str_prompts' = d.str_prompts
           /\ first_run_str_outputs' = d.str_outputs
    /\ calls' = Append(calls, Call("decode", Len(first_run_data.query_tensors)))
    /\ pc' = "second_compose"
    /\ UNCHANGED <<raised, lossy, faultAt, faultKind, batch, batch_size, digits,
                   str_prompts, first_run_strs, first_run_batch,
                   first_run_data, first_run_stats,
                   second_run_strs, second_run_batch, second_run_data, second_run_stats,
                   second_run_str_prompts, second_run_str_outputs,
                   data, stats, trajectories, kind, rewards>>

\* lines 104-110: compose and encode the second run
EncodeSecond ==
    /\ pc = "second_compose"
    /\ IF Len(str_prompts) < batch_size \/ Len(first_run_str_outputs) < batch_size
       THEN /\ Raise("IndexError")
            /\ UNCHANGED <<second_run_strs, second_run_batch, calls>>
       ELSE /\ second_run_strs' = [i \in 1..batch_size |-> second_run_str(i)]
            /\ second_run_batch' = tokenizer(second_run_strs')
            /\ calls' = Append(calls, Call("tokenizer", Len(second_run_strs')))
            /\ pc' = "second_generate"
            /\ UNCHANGED raised
    /\ UNCHANGED <<lossy, faultAt, faultKind, batch, batch_size, digits, str_prompts,
                   first_run_strs, first_run_batch, first_run_data, first_run_stats,
                   first_run_str_prompts, first_run_str_outputs,
                   second_run_data, second_run_stats,
                   second_run_str_prompts, second_run_str_outputs,
                   data, stats, trajectories, kind, rewards>>

\* line 113: the second generation; a failure of the engine propagates
GenerateSecond ==
    /\ pc = "second_generate"
    /\ calls' = Append(calls, Call("generate", Len(second_run_batch.input_ids)))
    /\ \/ /\ \E r \in generate_and_calc_logprobs(second_run_batch, Stage2Outputs, 3) :
                second_run_data' = r.data /\ second_run_stats' = r.stats
          /\ pc' = "second_decode"
          /\ UNCHANGED raised
       \/ /\ Raise("CollaboratorFailure")
          /\ UNCHANGED <<second_run_data, second_run_stats>>
    /\ UNCHANGED <<lossy, faultAt, faultKind, batch, batch_size, digits, str_prompts,
                   first_run_strs, first_run_batch, first_run_data, first_run_stats,
                   first_run_str_prompts, first_run_str_outputs,
                   second_run_strs, second_run_batch,
                   second_run_str_prompts, second_run_str_outputs,
                   data, stats, trajectories, kind, rewards>>

\* lines 116-118: decode the second run
DecodeSecond ==
    /\ pc = "second_decode"
    /\ LET d == decode(3, second_run_data.query_tensors, second_run_data.response_tensors)
       IN  /\ second_run_str_prompts' = d.str_prompts
           /\ second_run_str_outputs' = d.str_outputs
    /\ calls' = Append(calls, Call("decode", Len(second_run_data.query_tensors)))
    /\ pc' = "merge"
    /\ UNCHANGED <<raised, lossy, faultAt, faultKind, batch, batch_size, digits,
                   str_prompts, first_run_strs, first_run_batch,
                   first_run_data, first_run_stats,
                   first_run_str_prompts, first_run_str_outputs,
                   second_run_strs, second_run_batch, second_run_data, second_run_stats,
                   data, stats, trajectories, kind, rewards>>

\* lines 120-123: merge the two runs' data and statistics
Merge ==
    /\ pc = "merge"
    /\ data' = RunElementBatch_add(first_run_data, second_run_data)
    /\ IF \E k \in DOMAIN first_run_stats : k \notin DOMAIN second_run_stats
       THEN /\ Raise("KeyError")
            /\ UNCHANGED stats
       ELSE /\ stats' = sum_stats(first_run_stats, second_run_stats)
            /\ pc' = "reconstruct"
            /\ UNCHANGED raised
    /\ UNCHANGED <<lossy, faultAt, faultKind, batch, batch_size, digits, str_prompts,
                   first_run_strs, first_run_batch, first_run_data, first_run_stats,
                   first_run_str_prompts, first_run_str_outputs,
                   second_run_strs, second_run_batch, second_run_data, second_run_stats,
                   second_run_str_prompts, second_run_str_outputs,
                   trajectories, calls, kind, rewards>>

\* lines 125-130: build the trajectories and return
Reconstruct ==
    /\ pc = "reconstruct"
    /\ IF \E l \in {first_run_str_prompts, first_run_str_outputs,
                    second_run_str_prompts, second_run_str_outputs} : Len(l) < batch_size
       THEN /\ Raise("IndexError")
            /\ UNCHANGED trajectories
       ELSE /\ trajectories' = [i \in 1..batch_size |-> trajectory(i)]
            /\ pc' = "returned"
            /\ UNCHANGED raised
    /\ UNCHANGED <<lossy, faultAt, faultKind, batch, batch_size, digits, str_prompts,
                   first_run_strs, first_run_batch, first_run_data, first_run_stats,
                   first_run_str_prompts, first_run_str_outputs,
                   second_run_strs, second_run_batch, second_run_data, second_run_stats,
                   second_run_str_prompts, second_run_str_outputs,
                   data, stats, calls, kind, rewards>>

\* the training loop hands the returned trajectories to reward_fn
Score ==
    /\ pc = "returned"
    /\ rewards' = reward_fn(kind, trajectories)
    /\ pc' = "scored"
    /\ UNCHANGED <<raised, lossy, faultAt, faultKind, batch, batch_size, digits,
                   str_prompts,
                   first_run_strs, first_run_batch, first_run_data, first_run_stats,
                   first_run_str_prompts, first_run_str_outputs,
                   second_run_strs, second_run_batch, second_run_data, second_run_stats,
                   second_run_str_prompts, second_run_str_outputs,
                   data, stats, trajectories, calls, kind>>

Next ==
    \/ SampleAndDecode
    \/ EncodeFirst
    \/ GenerateFirst
    \/ DecodeFirst
    \/ EncodeSecond
    \/ GenerateSecond
    \/ DecodeSecond
    \/ Merge
    \/ Reconstruct
    \/ Score

Spec == Init /\ [][Next]_vars

\* ------------------------------------------- reward_fn on its own inputs
\* final outputs a model may produce: "", "!", "= 0", "= 1", "= 1!", "= 11"
RewardTexts ==
    {<<>>, <<"!">>, <<"=", " ", "0">>, <<"=", " ", "1">>,
     <<"=", " ", "1", "!">>, <<"=", " ", "1", "1">>}

\* a trajectory in the documented five-field form, or in the three-field form
Row(width, secret, text) ==
    IF width = 5 THEN <<secret, <<"a">>, <<"b">>, <<"c">>, text>>
    ELSE <<secret, <<"a">>, text>>

FinalField(t) == t[Len(t)]

InitReward ==
    /\ pc = "reward_call"
    /\ raised = "none"
    /\ lossy = FALSE /\ faultAt = 0 /\ faultKind = "none"
    /\ batch_size = 0 /\ batch = [input_ids |-> <<>>]
    /\ digits = <<>>
    /\ str_prompts = <<>>
    /\ first_run_strs = <<>> /\ first_run_batch = [input_ids |-> <<>>]
    /\ first_run_data = NoData /\ first_run_stats = NoStats
    /\ first_run_str_prompts = <<>> /\ first_run_str_outputs = <<>>
    /\ second_run_strs = <<>> /\ second_run_batch = [input_ids |-> <<>>]
    /\ second_run_data = NoData /\ second_run_stats = NoStats
    /\ second_run_str_prompts = <<>> /\ second_run_str_outputs = <<>>
    /\ data = NoData /\ stats = NoStats
    /\ calls = <<>>
    /\ kind \in {"list", "ndarray"}
    /\ \E n \in 1..MaxTraj, width \in {3, 5} :
         \E secrets \in [1..n -> {0, 1}], texts \in [1..n -> RewardTexts] :
           trajectories = [i \in 1..n |-> Row(width, secrets[i], texts[i])]
    /\ rewards = NotCalled

CallRewardFn ==
    /\ pc = "reward_call"
    /\ rewards' = reward_fn(kind, trajectories)
    /\ pc' = "reward_done"
    /\ UNCHANGED <<raised, lossy, faultAt, faultKind, batch, batch_size, digits,
                   str_prompts,
                   first_run_strs, first_run_batch, first_run_data, first_run_stats,
                   first_run_str_prompts, first_run_str_outputs,
                   second_run_strs, second_run_batch, second_run_data, second_run_stats,
                   second_run_str_prompts, second_run_str_outputs,
                   data, stats, trajectories, calls, kind>>

NextReward == CallRewardFn

SpecReward == InitReward /\ [][NextReward]_vars

\* ================================================================ claims
Completed == pc \in {"returned", "scored"}

FiveFields == \A i \in 1..Len(trajectories) : Len(trajectories[i]) = 5

\* the recalled value of a text under the last-whitespace-token rule, -1 if none
Recalled(text) == IF isdigit(LastToken(text)) THEN int(LastToken(text)) ELSE -1

\* C1: reward_fn returns, for every five-field trajectory, 1 exactly when the
\* last whitespace-delimited token of stage2_output is a non-negative integer
\* literal equal to the secret, and 0 otherwise.
C1_RewardIsExactMatchOfLastToken ==
    (pc = "reward_done" /\ FiveFields) =>
        /\ rewards.raised = "none"
        /\ Len(rewards.value) = Len(trajectories)
        /\ \A i \in 1..Len(trajectories) :
             rewards.value[i] =
               IF Recalled(FinalField(trajectories[i])) = trajectories[i][1] THEN 1 ELSE 0

\* C2: reward_fn never raises on five-field trajectories: it returns one
\* reward per trajectory, and an unparseable output is scored 0.
C2_RewardNeverRaises ==
    (pc = "reward_done" /\ FiveFields) =>
        /\ rewards.raised = "none"
        /\ Len(rewards.value) = Len(trajectories)
        /\ \A i \in 1..Len(trajectories) :
             Recalled(FinalField(trajectories[i])) = -1 => rewards.value[i] = 0

\* C3: the trajectories the experience function returns are accepted by
\* reward_fn; when every stage-2 output is "Answer: x = {secret}" every
\* element's reward is 1.
C3_PipelineRewardsAllOnes ==
    (pc = "scored" /\ \A i \in 1..batch_size :
                         second_run_str_outputs[i] = AnswerText(digits[i])) =>
        rewards = Returned([i \in 1..batch_size |-> 1])

\* C4: the statistics merge returns a map only when the two key sets are the
\* same, and then it has that key set and the sums; a key missing on either
\* side makes the merge fail.
C4_MergeRejectsKeySetMismatch ==
    pc = "reconstruct" =>
        /\ DOMAIN first_run_stats = DOMAIN second_run_stats
        /\ DOMAIN stats = DOMAIN first_run_stats
        /\ \A k \in DOMAIN stats : stats[k] = first_run_stats[k] + second_run_stats[k]

\* C5: a completed step of batch size n returns n trajectories of five fields
\* [secret, stage1_prompt, stage1_output, stage2_prompt, stage2_output], and a
\* combined record whose every field has length 2n: the n stage-1 elements
\* followed by the n stage-2 elements.
C5_ShapesOfCompletedStep ==
    Completed =>
        /\ batch_size >= 1
        /\ Len(trajectories) = batch_size
        /\ \A i \in 1..batch_size :
             /\ Len(trajectories[i]) = 5
             /\ trajectories[i][1] \in {0, 1}
             /\ HasPrefix(trajectories[i][2], fact_head)
             /\ \E o \in Stage1Outputs : trajectories[i][3] \in {o, LStrip(RStrip(o))}
             /\ HasSuffix(trajectories[i][4], recall_str)
             /\ trajectories[i][5] \in Stage2Outputs
        /\ \A f \in {"query_tensors", "response_tensors"} :
             /\ Len(data[f]) = 2 * batch_size
             /\ SubSeq(data[f], 1, batch_size) = first_run_data[f]
             /\ SubSeq(data[f], batch_size + 1, 2 * batch_size) = second_run_data[f]
             /\ Len(first_run_data[f]) = batch_size

C5_Witness ==
    /\ pc = "returned"
    /\ batch_size >= 2
    /\ trajectories[1][3] # <<>>
    /\ trajectories[1][5] # <<>>

\* the stage-2 prompt of element i without the supplied base prompt and the
\* supplied stage-1 output
TemplateText(i) ==
    LET s == second_run_strs[i]
        a == Len(str_prompts[i])
        b == a + Len(second_run_sentinel)
        c == b + Len(first_run_str_outputs[i])
    IN  SubSeq(s, a + 1, b) \o SubSeq(s, c + 1, Len(s))

Composed2 == pc \in {"second_generate", "second_decode", "merge", "reconstruct",
                     "returned", "scored"}

ExpectedCalls ==
    <<"decode", "tokenizer", "generate", "decode", "tokenizer", "generate", "decode">>

Generations == {k \in 1..Len(calls) : calls[k].op = "generate"}

\* C7: the generation engine is invoked at most twice in a step and exactly
\* twice in a completed one, each time on the whole batch, never again after a
\* failure, and the second time only after the first result was decoded and
\* the stage-2 prompts composed from it.
C7_TwoGenerationsInOrder ==
    /\ Len(calls) <= Len(ExpectedCalls)
    /\ \A k \in 1..Len(calls) : calls[k].op = ExpectedCalls[k]
    /\ \A k \in Generations : calls[k].size = batch_size
    /\ Cardinality(Generations) <= 2
    /\ Completed => Cardinality(Generations) = 2
    /\ raised = "CollaboratorFailure" => calls[Len(calls)].op = "generate"
    /\ Cardinality(Generations) = 2 =>
         /\ Len(first_run_str_outputs) >= batch_size
         /\ \A i \in 1..batch_size :
              Contains(second_run_strs[i], first_run_str_outputs[i] \o recall_str)

C7_Witness ==
    /\ pc = "returned"
    /\ Cardinality(Generations) = 2
    /\ Len(calls) = 7

\* C8: when the sequences reaching trajectory reconstruction differ in length
\* the step aborts; it returns trajectories only from sequences of one length.
C8_LengthMismatchAborts ==
    Completed =>
        /\ Len(digits) = Len(trajectories)
        /\ Len(first_run_str_prompts) = Len(trajectories)
        /\ Len(first_run_str_outputs) = Len(trajectories)
        /\ Len(second_run_str_prompts) = Len(trajectories)
        /\ Len(second_run_str_outputs) = Len(trajectories)

\* the collaborators keep element i in as element i out
KeepsOrder == faultKind # "reversed"

\* C9: when the codec and the engine keep the order of the elements, for
\* every index i the stage-1 prompt embeds secret i and poem i, the stage-2
\* prompt embeds poem i and the stage-1 output of element i, and trajectory i
\* holds secret i and the prompts and outputs of element i.
C9_PerElementCorrespondence ==
    (Completed /\ KeepsOrder) =>
        \A i \in 1..batch_size :
            /\ Contains(first_run_strs[i], fact_head \o Str(digits[i]) \o fact_tail)
            /\ Contains(first_run_strs[i], Corpus[i])
            /\ Contains(second_run_strs[i], Corpus[i])
            /\ Contains(second_run_strs[i], Detok(first_run_data.response_tensors[i]))
            /\ ~Contains(second_run_strs[i], fact_head)
            /\ trajectories[i][1] = digits[i]
            /\ trajectories[i][2] = Detok(Tok(first_run_strs[i]))
            /\ trajectories[i][3] = Detok(first_run_data.response_tensors[i])
            /\ trajectories[i][4] = Detok(Tok(second_run_strs[i]))
            /\ trajectories[i][5] = Detok(second_run_data.response_tensors[i])

C9_Witness ==
    /\ pc = "returned"
    /\ KeepsOrder
    /\ batch_size >= 2
    /\ digits[1] # digits[2]
    /\ trajectories[1][3] # trajectories[2][3]
    /\ trajectories[1][5] # trajectories[2][5]

\* C10: the stage-1 prompt is "Fact: x = {digit}", newline, "Continue the
\* poem:", two newlines, the poem, newline, "The", with nothing after it.
C10_Stage1PromptAsDocumented ==
    pc = "first_generate" =>
        \A i \in 1..batch_size :
            first_run_strs[i] =
                fact_head \o Str(digits[i])
                \o <<"\n", "C", "o", "n", "t", "i", "n", "u", "e", " ", "t", "h", "e", " ", "p", "o", "e", "m", ":", "\n", "\n">>
                \o str_prompts[i] \o <<"\n", "T", "h", "e">>
====
